---- MODULE Spec2Model ----
(***************************************************************************)
(* Remote synchronisation and reconciliation of the Insight notes client:  *)
(* the Merger (mergeNotes, mergeShards), the Sharder (shardNotes) and the  *)
(* download path of the three backends (sharded Gist, single-file Gist,    *)
(* WebDAV), modelled from src/sync.js and src/webdav-sync.js.              *)
(*                                                                         *)
(* The specifications share the variables:                                *)
(*   MergeSpec  draws two note collections and applies mergeNotes;         *)
(*   ShardSpec  draws a note collection and applies shardNotes, the shard  *)
(*              files of createGist, and mergeShards;                      *)
(*   ShardOrderSpec  is ShardSpec on notes in any order of creation;       *)
(*   Spec       is the client: the Local Store, one remote object and the  *)
(*              sync operations of the backend chosen at construction;     *)
(*   UploadSpec is the client's uploads, overlapping;                      *)
(*   TimerSpec  is the auto-sync scheduler of a sync manager: its         *)
(*              settings, time passing, its firings and their uploads;    *)
(*   CombineSpec  draws shard files and applies mergeShards;              *)
(*   GetGistSpec  draws a remote gist and applies getGist and syncDown;   *)
(*   TagSpec    is the custom tags and tag colors of the Local Store and  *)
(*              the downloads that write them.                            *)
(***************************************************************************)
EXTENDS Integers, Sequences, FiniteSets

VARIABLES
    \* ---- MergeSpec ----
    localNotes,     \* mergeNotes' first argument
    cloudNotes,     \* mergeNotes' second argument
    mergedNotes,    \* mergeNotes(localNotes, cloudNotes)
    mergedAgain,    \* mergeNotes(localNotes, mergedNotes)
    mergedSwapped,  \* mergeNotes(cloudNotes, localNotes)
    mergePc,        \* "input" | "merged"
    \* ---- ShardSpec ----
    shardInput,     \* shardNotes' argument
    shardBase,      \* the base-structure size shardNotes estimates (bytes)
    shards,         \* shardNotes(shardInput): a sequence of note sequences
    combined,       \* mergeShards of the shard files built from shards
    shardPc,        \* "input" | "sharded"
    \* ---- Spec: the client ----
    backend,        \* the sync manager the app is built with
    connected,      \* credentials stored (GitHub token / WebDAV server, user, password)
    gistId,         \* localStorage insight_gist_id: NoGist or the handle
    storeNotes,     \* localStorage insight_notes: the Local Store's notes
    lastSync,       \* localStorage last-sync time: Undefined or <<instant>>
    clock,          \* Date.now()
    gists,          \* the remote gists ever created, by handle
    davFile,        \* the WebDAV file insight-notes.json: <<>> or <<snapshot>>
    download,       \* the syncDown in flight: <<>> or <<request>>
    uploads,        \* the syncUp calls in flight, each at its pending request
    lastResult,     \* what the sync operation that just ended returned and did
    \* ---- TimerSpec: the auto-sync scheduler ----
    autoSyncEnabled,\* localStorage insight_auto_sync: Undefined or <<boolean>>
    syncInterval,   \* localStorage insight_sync_interval: Undefined or <<minutes>>
    autoSyncTimer,  \* this.autoSyncTimer: NoTimer (null) or a timer id
    timers,         \* the interval timers the browser runs:
                    \* {[id, period in ms, elapsed: ms since set or last fired]}
    sizeWarning,    \* localStorage insight_size_warning: Undefined or <<instant>>
    alerts,         \* the callers ("user", "timer") of the syncUp calls that
                    \* have put an alert() before the user
    \* ---- TagSpec: custom tags and tag colors ----
    storeTags,      \* localStorage insight_custom_tags: what getCustomTags returns
    storeColors,    \* localStorage insight_tag_colors: what getTagColors returns
    testing,        \* a WebDAV testConnection awaits the answer to its PROPFIND
    \* ---- CombineSpec ----
    shardDataIn,    \* mergeShards' argument
    shardDataOut,   \* <<>>, or <<mergeShards(shardDataIn)>>
    \* ---- GetGistSpec ----
    gistData        \* <<>>, or how the last getGist ended: the response it got
                    \* and what it returned (<<>> when it threw)

mergeVars == <<localNotes, cloudNotes, mergedNotes, mergedAgain, mergedSwapped, mergePc>>
shardVars == <<shardInput, shardBase, shards, combined, shardPc>>
storeVars == <<storeNotes, lastSync, clock>>
configVars == <<backend, connected, gistId>>
remoteVars == <<gists, davFile>>
flightVars == <<download, uploads>>
timerVars == <<autoSyncEnabled, syncInterval, autoSyncTimer, timers>>
promptVars == <<sizeWarning, alerts>>
tagVars == <<storeTags, storeColors>>
combineVars == <<shardDataIn, shardDataOut, gistData>>
sysVars == <<configVars, storeVars, remoteVars, flightVars, lastResult, timerVars, promptVars,
             tagVars, testing, combineVars>>
vars == <<mergeVars, shardVars, sysVars>>

-----------------------------------------------------------------------------
(* Bounds of the model. *)

\* Note ids are 1..MaxId (Date.now() tokens, abstracted to small integers).
MaxId == 2
\* updatedAt instants are 1..MaxTime.
MaxTime == 2
\* Notes in the two inputs of mergeNotes together.
MaxNotes == 4
\* Notes in a sharder input.
MaxShardNotes == 5
\* Notes in a sharder input given in any order of creation.
MaxOrderNotes == 3
\* Shard files given to mergeShards.
MaxShardFiles == 2
\* Custom tags in the Local Store when a download begins.
MaxTags == 3
\* Largest serialized note, in units of SizeUnit; MAX_SHARD_SIZE is 4 units.
MaxNoteUnits == 5
\* Largest base-structure size, in units of SizeUnit.
MaxBaseUnits == 1
\* The client's clock runs from 1 to MaxClock: so many notes are saved or edited.
MaxClock == 2
\* Remote gists created in one run.
MaxGists == 1
\* syncUp calls in flight together.
MaxUploads == 1
\* UploadSpec: syncUp calls in flight together, and remote gists created.
MaxOverlap == 2
MaxRemade == 2

-----------------------------------------------------------------------------
(* JavaScript values.  A property read or an arithmetic result that has no *)
(* numeric value (undefined, NaN) is the empty tuple; a number n is <<n>>. *)

Undefined == <<>>

\* obj[key] of JavaScript: undefined when the object has no such property.
Get(obj, key) == IF key \in DOMAIN obj THEN <<obj[key]>> ELSE Undefined

\* a > b on numbers: false as soon as one side is undefined (NaN).
GreaterThan(a, b) == a # Undefined /\ b # Undefined /\ a[1] > b[1]

\* a - b on numbers: NaN as soon as one side is undefined.
Minus(a, b) == IF a = Undefined \/ b = Undefined THEN Undefined ELSE <<a[1] - b[1]>>

\* What Array.prototype.sort makes of a comparator's result: NaN counts as +0.
SortCompare(v) == IF v = Undefined THEN 0 ELSE v[1]

Range(s) == {s[i] : i \in 1..Len(s)}
Ids(notes) == {notes[i].id : i \in 1..Len(notes)}
UniqueIds(notes) == \A i, j \in 1..Len(notes) : notes[i].id = notes[j].id => i = j

\* How often x occurs in s.
Count(x, s) == Cardinality({i \in 1..Len(s) : s[i] = x})
\* The same elements the same number of times, order ignored.
SameContent(s, t) ==
    /\ Len(s) = Len(t)
    /\ \A x \in Range(s) \cup Range(t) : Count(x, s) = Count(x, t)

-----------------------------------------------------------------------------
(* Notes.  InsightApp.saveNote builds {id, content, tags, createdAt,       *)
(* updatedAt}: a note has no `timestamp` property.  content stands for the *)
(* text (tags are derived from it); its value is also the text's length in *)
(* SizeUnit units.                                                         *)

Note(id, content, updatedAt) == [id |-> id, content |-> content, updatedAt |-> updatedAt]

NotesOf(ids, texts, times) == {Note(i, c, t) : i \in ids, c \in texts, t \in times}

\* Every sequence over `universe` of length n whose ids are distinct.
RECURSIVE NoteSeqsOfLen(_, _)
NoteSeqsOfLen(universe, n) ==
    IF n = 0 THEN {<<>>}
    ELSE UNION {{Append(s, x) : x \in {y \in universe : y.id \notin Ids(s)}} :
                    s \in NoteSeqsOfLen(universe, n - 1)}

NoteSeqs(universe, maxLen) ==
    UNION {NoteSeqsOfLen(universe, n) : n \in 0..maxLen}

-----------------------------------------------------------------------------
(* Array.prototype.sort((a, b) => b.timestamp - a.timestamp): a stable     *)
(* sort (ES2019), newest timestamp first.                                  *)

compareTimestampDesc(a, b) ==
    SortCompare(Minus(Get(b, "timestamp"), Get(a, "timestamp")))

\* x inserted into the sorted s behind every element that does not sort after it.
RECURSIVE insertSorted(_, _)
insertSorted(s, x) ==
    IF s = <<>> \/ compareTimestampDesc(s[Len(s)], x) <= 0
    THEN Append(s, x)
    ELSE Append(insertSorted(SubSeq(s, 1, Len(s) - 1), x), s[Len(s)])

RECURSIVE sortByTimestampDesc(_)
sortByTimestampDesc(notes) ==
    IF notes = <<>> THEN <<>>
    ELSE insertSorted(sortByTimestampDesc(SubSeq(notes, 1, Len(notes) - 1)),
                      notes[Len(notes)])

-----------------------------------------------------------------------------
(* A JavaScript Map keyed by note id, as the sequence of its values in     *)
(* insertion order: set() on a key already present keeps the key's place.  *)

mapHas(map, id) == \E i \in 1..Len(map) : map[i].id = id
mapGet(map, id) == map[CHOOSE i \in 1..Len(map) : map[i].id = id]
mapSet(map, note) ==
    IF mapHas(map, note.id)
    THEN [i \in 1..Len(map) |-> IF map[i].id = note.id THEN note ELSE map[i]]
    ELSE Append(map, note)

\* First loop of mergeNotes: every local note is put in the map.
RECURSIVE seedLocal(_, _)
seedLocal(map, notes) ==
    IF notes = <<>> THEN map
    ELSE seedLocal(mapSet(map, Head(notes)), Tail(notes))

\* The test of the second loop: !existing || note.timestamp > existing.timestamp.
cloudReplaces(map, note) ==
    \/ ~mapHas(map, note.id)
    \/ GreaterThan(Get(note, "timestamp"), Get(mapGet(map, note.id), "timestamp"))

\* Second loop of mergeNotes.
RECURSIVE addCloud(_, _)
addCloud(map, notes) ==
    IF notes = <<>> THEN map
    ELSE addCloud(IF cloudReplaces(map, Head(notes)) THEN mapSet(map, Head(notes)) ELSE map,
                  Tail(notes))

\* Mutants of mergeNotes.
mergeNotesNoDedup(local, cloud) == sortByTimestampDesc(local \o cloud)
mergeNotesCloudWins(local, cloud) ==
    sortByTimestampDesc(seedLocal(seedLocal(<<>>, local), cloud))
mergeNotesSeenOnly(local, cloud) == sortByTimestampDesc(seedLocal(<<>>, local))

mergeNotes(local, cloud) ==
    sortByTimestampDesc(addCloud(seedLocal(<<>>, local), cloud))

-----------------------------------------------------------------------------
(* The Sharder: CloudSyncManager.shardNotes (sharded Gist backend).        *)

MAX_SHARD_SIZE == 800 * 1024
\* Sizes are counted in bytes; the model's texts come in steps of SizeUnit.
SizeUnit == MAX_SHARD_SIZE \div 4
\* new Blob([JSON.stringify({customTags: [], tagColors: {}, syncTime, version,
\* shardInfo, notes: []})]).size with no tag and no color.
BaseSkeleton == 131

\* new Blob([JSON.stringify(note)]).size
noteSize(note) == note.content * SizeUnit

\* A mutant of startsNewShard: the base structure's size is left out.
startsNewShardNoBase(currentShard, currentSize, note, baseSize) ==
    /\ currentSize + noteSize(note) > MAX_SHARD_SIZE
    /\ Len(currentShard) > 0

\* A mutant of startsNewShard: the size of the shard under construction is
\* left out.
startsNewShardNoCurrent(currentShard, currentSize, note, baseSize) ==
    /\ noteSize(note) + baseSize > MAX_SHARD_SIZE
    /\ Len(currentShard) > 0

\* A mutant of startsNewShard: the comparison is turned round.
startsNewShardReversed(currentShard, currentSize, note, baseSize) ==
    /\ currentSize + noteSize(note) + baseSize < MAX_SHARD_SIZE
    /\ Len(currentShard) > 0

\* The test that closes the shard under construction.
startsNewShard(currentShard, currentSize, note, baseSize) ==
    /\ currentSize + noteSize(note) + baseSize > MAX_SHARD_SIZE
    /\ Len(currentShard) > 0

\* The for loop of shardNotes over the notes still to place; the value is
\* the shards closed so far and the shard under construction.
RECURSIVE shardLoop(_, _, _, _, _)
shardLoop(rest, done, currentShard, currentSize, baseSize) ==
    IF rest = <<>> THEN [shards |-> done, currentShard |-> currentShard]
    ELSE IF startsNewShard(currentShard, currentSize, Head(rest), baseSize)
         THEN shardLoop(Tail(rest), Append(done, currentShard),
                        <<Head(rest)>>, noteSize(Head(rest)), baseSize)
         ELSE shardLoop(Tail(rest), done, Append(currentShard, Head(rest)),
                        currentSize + noteSize(Head(rest)), baseSize)

\* A mutant of shardNotes: the shard under construction when the loop ends
\* is not added.
shardNotesDropLast(notes, baseSize) ==
    LET end == shardLoop(sortByTimestampDesc(notes), <<>>, <<>>, 0, baseSize)
    IN  IF Len(end.shards) > 0 THEN end.shards ELSE << <<>> >>

\* A mutant of shardNotes: no shard is returned for no note.
shardNotesNoFallback(notes, baseSize) ==
    LET end == shardLoop(sortByTimestampDesc(notes), <<>>, <<>>, 0, baseSize)
    IN  IF Len(end.currentShard) > 0
        THEN Append(end.shards, end.currentShard)
        ELSE end.shards

shardNotes(notes, baseSize) ==
    LET end == shardLoop(sortByTimestampDesc(notes), <<>>, <<>>, 0, baseSize)
        all == IF Len(end.currentShard) > 0
               THEN Append(end.shards, end.currentShard)
               ELSE end.shards
    IN  IF Len(all) > 0 THEN all ELSE << <<>> >>

\* The estimate shardNotes keeps for one shard.
estimatedSize(shard, baseSize) ==
    LET RECURSIVE sum(_)
        sum(s) == IF s = <<>> THEN 0 ELSE noteSize(Head(s)) + sum(Tail(s))
    IN  baseSize + sum(shard)

\* The snapshot {notes, customTags, tagColors, syncTime, version} of syncUp.
snapshotOf(notes, customTags, tagColors, syncTime) ==
    [notes |-> notes, customTags |-> customTags, tagColors |-> tagColors,
     syncTime |-> syncTime, version |-> "1.0"]

\* The shard files createGist and updateGist write, file insight-shard-i.json
\* at place i + 1 (JSON.stringify on writing, JSON.parse on reading).
shardFiles(shardList, data) ==
    [i \in 1..Len(shardList) |->
        [notes |-> shardList[i],
         customTags |-> data.customTags,
         tagColors |-> data.tagColors,
         syncTime |-> data.syncTime,
         version |-> data.version,
         shardInfo |-> [index |-> i - 1, total |-> Len(shardList)]]]

-----------------------------------------------------------------------------
(* The Merger's shard recombination: CloudSyncManager.mergeShards.         *)

\* allNotes after the loop: every shard's notes, in the order given.
RECURSIVE allShardNotes(_)
allShardNotes(shardDataArray) ==
    IF shardDataArray = <<>> THEN <<>>
    ELSE (IF "notes" \in DOMAIN Head(shardDataArray)
          THEN Head(shardDataArray).notes ELSE <<>>)
         \o allShardNotes(Tail(shardDataArray))

\* A mutant of lastCarried: a shard that does not carry `key` resets the let.
RECURSIVE lastCarriedOrReset(_, _, _)
lastCarriedOrReset(shardDataArray, key, start) ==
    IF shardDataArray = <<>> THEN start
    ELSE lastCarriedOrReset(Tail(shardDataArray), key,
                            IF key \in DOMAIN Head(shardDataArray)
                            THEN Head(shardDataArray)[key] ELSE <<>>)

\* The value of a let that every shard carrying `key` overwrites.
RECURSIVE lastCarried(_, _, _)
lastCarried(shardDataArray, key, start) ==
    IF shardDataArray = <<>> THEN start
    ELSE lastCarried(Tail(shardDataArray), key,
                     IF key \in DOMAIN Head(shardDataArray)
                     THEN Head(shardDataArray)[key] ELSE start)

\* A mutant of latestSyncTime: every shard that carries a syncTime
\* overwrites the one kept.
RECURSIVE latestSyncTimeOverwritten(_, _)
latestSyncTimeOverwritten(shardDataArray, latest) ==
    IF shardDataArray = <<>> THEN latest
    ELSE latestSyncTimeOverwritten(Tail(shardDataArray),
            IF "syncTime" \in DOMAIN Head(shardDataArray)
            THEN <<Head(shardDataArray).syncTime>> ELSE latest)

\* latestSyncTime: null (Undefined) or the greatest syncTime carried.
RECURSIVE latestSyncTime(_, _)
latestSyncTime(shardDataArray, latest) ==
    IF shardDataArray = <<>> THEN latest
    ELSE latestSyncTime(Tail(shardDataArray),
            IF /\ "syncTime" \in DOMAIN Head(shardDataArray)
               /\ \/ latest = Undefined
                  \/ Head(shardDataArray).syncTime > latest[1]
            THEN <<Head(shardDataArray).syncTime>> ELSE latest)

\* uniqueNotes: the first note of each id.
RECURSIVE uniqueById(_, _)
uniqueById(notes, unique) ==
    IF notes = <<>> THEN unique
    ELSE uniqueById(Tail(notes),
                    IF Head(notes).id \in Ids(unique) THEN unique
                    ELSE Append(unique, Head(notes)))

\* A mutant of mergeShards: only the first shard's notes are taken.
mergeShardsFirstOnly(shardDataArray) ==
    [notes |-> uniqueById(allShardNotes(SubSeq(shardDataArray, 1, 1)), <<>>),
     customTags |-> lastCarried(shardDataArray, "customTags", <<>>),
     tagColors |-> lastCarried(shardDataArray, "tagColors", <<>>),
     syncTime |-> latestSyncTime(shardDataArray, Undefined),
     version |-> "1.0"]

mergeShards(shardDataArray) ==
    [notes |-> uniqueById(allShardNotes(shardDataArray), <<>>),
     customTags |-> lastCarried(shardDataArray, "customTags", <<>>),
     tagColors |-> lastCarried(shardDataArray, "tagColors", <<>>),
     syncTime |-> latestSyncTime(shardDataArray, Undefined),
     version |-> "1.0"]

-----------------------------------------------------------------------------
(* The parts of the state a specification leaves alone. *)

MergeIdle ==
    /\ localNotes = <<>>
    /\ cloudNotes = <<>>
    /\ mergedNotes = <<>>
    /\ mergedAgain = <<>>
    /\ mergedSwapped = <<>>
    /\ mergePc = "idle"

ShardIdle ==
    /\ shardInput = <<>>
    /\ shardBase = 0
    /\ shards = <<>>
    /\ combined = <<>>
    /\ shardPc = "idle"

NoGist == 0
\* this.autoSyncTimer = null
NoTimer == 0

TimerIdle ==
    /\ autoSyncEnabled = Undefined
    /\ syncInterval = Undefined
    /\ autoSyncTimer = NoTimer
    /\ timers = {}
    /\ sizeWarning = Undefined
    /\ alerts = {}

TagIdle ==
    /\ storeTags = <<>>
    /\ storeColors = <<>>

CombineIdle ==
    /\ shardDataIn = <<>>
    /\ shardDataOut = <<>>
    /\ gistData = <<>>

\* The client at rest.
ClientIdle ==
    /\ TimerIdle
    /\ TagIdle
    /\ backend = "none"
    /\ connected = FALSE
    /\ gistId = NoGist
    /\ storeNotes = <<>>
    /\ lastSync = Undefined
    /\ clock = 0
    /\ gists = <<>>
    /\ davFile = <<>>
    /\ download = <<>>
    /\ uploads = <<>>
    /\ testing = FALSE
    /\ lastResult = <<>>

\* What each specification holds fixed of the variables it does not use.
SysIdle ==
    /\ CombineIdle
    /\ ClientIdle

-----------------------------------------------------------------------------
(* MergeSpec: mergeNotes on every pair of note collections within bounds.  *)

\* Two texts (of 1 and 2 units) are what it takes to tell two copies of a
\* note apart; mergeNotes never reads the text.
MergeTexts == {1, 2}
MergeUniverse == NotesOf(1..MaxId, MergeTexts, 1..MaxTime)
MergeInputs == NoteSeqs(MergeUniverse, MaxId)
MergePairs ==
    {p \in MergeInputs \X MergeInputs : Len(p[1]) + Len(p[2]) <= MaxNotes}

MergeInit ==
    /\ \E p \in MergePairs :
        /\ localNotes = p[1]
        /\ cloudNotes = p[2]
    /\ mergedNotes = <<>>
    /\ mergedAgain = <<>>
    /\ mergedSwapped = <<>>
    /\ mergePc = "input"
    /\ ShardIdle
    /\ SysIdle

MergeNotes ==
    /\ mergePc = "input"
    /\ mergedNotes' = mergeNotes(localNotes, cloudNotes)
    /\ mergedAgain' = mergeNotes(localNotes, mergedNotes')
    /\ mergedSwapped' = mergeNotes(cloudNotes, localNotes)
    /\ mergePc' = "merged"
    /\ UNCHANGED <<localNotes, cloudNotes, shardVars, sysVars>>

MergeNext == MergeNotes

MergeSpec == MergeInit /\ [][MergeNext]_vars

-----------------------------------------------------------------------------
(* Claims about mergeNotes, checked under MergeSpec.                       *)

Merged == mergePc = "merged"

\* The copies of note `id` in a collection.
Copies(notes, id) == {notes[k] : k \in {k \in 1..Len(notes) : notes[k].id = id}}

\* A local and a cloud note of one id.
Collide(i, j) == localNotes[i].id = cloudNotes[j].id

\* C2 (as claimed): whenever a local and a cloud note share an id and their
\* updatedAt differ, the result holds exactly the copy with the later
\* updatedAt, whole.
C2_LastWriterWins ==
    Merged =>
        \A i \in 1..Len(localNotes), j \in 1..Len(cloudNotes) :
            (Collide(i, j) /\ localNotes[i].updatedAt # cloudNotes[j].updatedAt) =>
                Copies(mergedNotes, localNotes[i].id) =
                    {IF cloudNotes[j].updatedAt > localNotes[i].updatedAt
                     THEN cloudNotes[j] ELSE localNotes[i]}

\* C3: the ids of the result are the ids of local and cloud together, each
\* id once.
C3_MergeIdsUnion ==
    Merged =>
        /\ Ids(mergedNotes) = Ids(localNotes) \cup Ids(cloudNotes)
        /\ UniqueIds(mergedNotes)

\* An id in both inputs next to an id that only local has.
C3_Witness ==
    /\ Merged
    /\ Ids(localNotes) \cap Ids(cloudNotes) # {}
    /\ Ids(localNotes) \ Ids(cloudNotes) # {}
    /\ Len(mergedNotes) < Len(localNotes) + Len(cloudNotes)

\* C4: merging local with the result of a first merge gives the notes of
\* that first merge again, each once, in whatever order.
C4_MergeIdempotent == Merged => SameContent(mergedAgain, mergedNotes)

C4_Witness ==
    /\ Merged
    /\ \E i \in 1..Len(localNotes), j \in 1..Len(cloudNotes) :
          Collide(i, j) /\ localNotes[i] # cloudNotes[j]
    /\ Ids(cloudNotes) \ Ids(localNotes) # {}

DisjointIds == Ids(localNotes) \cap Ids(cloudNotes) = {}

\* C5 (as claimed): with no id in both inputs, merge(local, cloud) and
\* merge(cloud, local) are the same sequence.
C5_CommutativeAsSequence == (Merged /\ DisjointIds) => mergedSwapped = mergedNotes

\* C5 (amended): with no id in both inputs, merge(local, cloud) and
\* merge(cloud, local) hold the same notes, each once; their order may differ.
C5_CommutativeContent ==
    (Merged /\ DisjointIds) => SameContent(mergedSwapped, mergedNotes)

C5_Witness ==
    /\ Merged
    /\ DisjointIds
    /\ localNotes # <<>>
    /\ cloudNotes # <<>>
    /\ mergedSwapped # mergedNotes

\* C6: when a local and a cloud note share an id and have equal updatedAt,
\* the result holds the local copy and no other copy of that id.
C6_LocalWinsTies ==
    Merged =>
        \A i \in 1..Len(localNotes), j \in 1..Len(cloudNotes) :
            (Collide(i, j) /\ localNotes[i].updatedAt = cloudNotes[j].updatedAt) =>
                Copies(mergedNotes, localNotes[i].id) = {localNotes[i]}

C6_Witness ==
    /\ Merged
    /\ \E i \in 1..Len(localNotes), j \in 1..Len(cloudNotes) :
          /\ Collide(i, j)
          /\ localNotes[i].updatedAt = cloudNotes[j].updatedAt
          /\ localNotes[i] # cloudNotes[j]
          /\ localNotes[i] \in Range(mergedNotes)

\* C7 (as claimed): the result is ordered by recency descending: no note is
\* followed by one with a later updatedAt.
C7_SortedByRecency ==
    Merged =>
        \A k \in 1..(Len(mergedNotes) - 1) :
            mergedNotes[k].updatedAt >= mergedNotes[k + 1].updatedAt

-----------------------------------------------------------------------------
(* ShardSpec: shardNotes on every note collection within bounds, the shard *)
(* files written from its result, and mergeShards on those files.          *)

\* n notes, the newest first as StorageManager.addNote keeps them (ids are
\* creation instants), with texts of sizes[1..n] units.  shardNotes reads a
\* note's serialized size only: updatedAt is held at 1.
RECURSIVE NotesWith(_, _)
NotesWith(sizes, n) ==
    IF n = 0 THEN <<>>
    ELSE Append(NotesWith(sizes, n - 1), Note(Len(sizes) + 1 - n, sizes[n], 1))

ShardBases == {BaseSkeleton + k * SizeUnit : k \in 0..MaxBaseUnits}

ShardInit ==
    /\ \E n \in 0..MaxShardNotes :
        \E sizes \in [1..n -> 1..MaxNoteUnits] :
            shardInput = NotesWith(sizes, n)
    /\ shardBase \in ShardBases
    /\ shards = <<>>
    /\ combined = <<>>
    /\ shardPc = "input"
    /\ MergeIdle
    /\ SysIdle

ShardNotes ==
    /\ shardPc = "input"
    /\ shards' = shardNotes(shardInput, shardBase)
    /\ combined' = mergeShards(shardFiles(shards', snapshotOf(shardInput, <<>>, <<>>, 1)))
    /\ shardPc' = "sharded"
    /\ UNCHANGED <<shardInput, shardBase, mergeVars, sysVars>>

ShardNext == ShardNotes

ShardSpec == ShardInit /\ [][ShardNext]_vars

-----------------------------------------------------------------------------
(* Claims about shardNotes and mergeShards, checked under ShardSpec.       *)

Sharded == shardPc = "sharded"

\* The notes of all shards, shard after shard.
RECURSIVE Flatten(_)
Flatten(shardList) ==
    IF shardList = <<>> THEN <<>> ELSE Head(shardList) \o Flatten(Tail(shardList))

\* C8: mergeShards on the shard files written from shardNotes(N) gives the
\* notes of N, each once.
C8_ShardRoundTrip == Sharded => SameContent(combined.notes, shardInput)

C8_Witness ==
    /\ Sharded
    /\ Len(shards) >= 3
    /\ \E k \in 1..Len(shards) : Len(shards[k]) >= 2

\* C9: the shards' note counts add up to |N| and no id is in two shards
\* (nor twice in one).
C9_ShardsPartition ==
    Sharded =>
        /\ Len(Flatten(shards)) = Len(shardInput)
        /\ UniqueIds(Flatten(shards))
        /\ Ids(Flatten(shards)) = Ids(shardInput)

C9_Witness ==
    /\ Sharded
    /\ Len(shards) >= 2
    /\ Len(shardInput) > Len(shards)

\* C10: a shard of more than one note is estimated at no more than
\* MAX_SHARD_SIZE.
C10_MultiNoteShardsFit ==
    Sharded =>
        \A k \in 1..Len(shards) :
            Len(shards[k]) > 1 => estimatedSize(shards[k], shardBase) <= MAX_SHARD_SIZE

\* A shard of two notes filled to the limit, next to a single note over it.
C10_Witness ==
    /\ Sharded
    /\ \E k \in 1..Len(shards) :
          Len(shards[k]) > 1 /\ estimatedSize(shards[k], shardBase) + SizeUnit > MAX_SHARD_SIZE
    /\ \E k \in 1..Len(shards) :
          Len(shards[k]) = 1 /\ estimatedSize(shards[k], shardBase) > MAX_SHARD_SIZE

\* A note whose own serialized size is over the limit.
Oversized(note) == noteSize(note) > MAX_SHARD_SIZE

\* The shards (by place) that hold a note of this id.
ShardsHolding(id) == {k \in 1..Len(shards) : id \in Ids(shards[k])}

\* C11: a note whose own size exceeds MAX_SHARD_SIZE is in exactly one
\* shard, and is the only note of that shard.
C11_OversizedNoteAlone ==
    Sharded =>
        \A i \in 1..Len(shardInput) :
            Oversized(shardInput[i]) =>
                /\ Cardinality(ShardsHolding(shardInput[i].id)) = 1
                /\ \A k \in ShardsHolding(shardInput[i].id) : shards[k] = <<shardInput[i]>>

\* Oversized notes first, in the middle and last, with smaller notes between.
C11_Witness ==
    /\ Sharded
    /\ Len(shardInput) >= 5
    /\ Oversized(shardInput[1])
    /\ Oversized(shardInput[Len(shardInput)])
    /\ \E i \in 2..(Len(shardInput) - 1) :
          /\ Oversized(shardInput[i])
          /\ ~Oversized(shardInput[i - 1])
          /\ ~Oversized(shardInput[i + 1])

\* The notes' sizes together, in SizeUnit units.
RECURSIVE TotalUnits(_)
TotalUnits(notes) ==
    IF notes = <<>> THEN 0 ELSE Head(notes).content + TotalUnits(Tail(notes))

\* Notes of 3.5 times MAX_SHARD_SIZE together, none over the limit alone.
ThreeAndAHalf ==
    /\ 2 * TotalUnits(shardInput) * SizeUnit = 7 * MAX_SHARD_SIZE
    /\ \A i \in 1..Len(shardInput) : ~Oversized(shardInput[i])

\* C12 (as claimed): notes of 3.5 times MAX_SHARD_SIZE together, none
\* oversized, always give exactly 4 shards.
C12_ExactlyFourShards == (Sharded /\ ThreeAndAHalf) => Len(shards) = 4

\* C12 (amended): notes of 3.5 times MAX_SHARD_SIZE together, none
\* oversized, give at least 4 shards, and the notes of each shard are no
\* larger than MAX_SHARD_SIZE together.
C12_AtLeastFourShards ==
    (Sharded /\ ThreeAndAHalf) =>
        /\ Len(shards) >= 4
        /\ \A k \in 1..Len(shards) : estimatedSize(shards[k], 0) <= MAX_SHARD_SIZE

\* Such notes in more than 4 shards.
C12_Witness ==
    /\ Sharded
    /\ ThreeAndAHalf
    /\ Len(shards) > 4

\* C13: for no note, shardNotes returns one shard with no note, and one
\* shard file with an empty notes list is written from it.
C13_EmptyInputOneShard ==
    (Sharded /\ shardInput = <<>>) =>
        /\ shards = << <<>> >>
        /\ LET files == shardFiles(shards, snapshotOf(shardInput, <<>>, <<>>, 1))
           IN  /\ Len(files) = 1
               /\ files[1].notes = <<>>
               /\ files[1].shardInfo = [index |-> 0, total |-> 1]

C13_Witness ==
    /\ Sharded
    /\ shardInput = <<>>
    /\ Len(shards) = 1
    /\ combined.notes = <<>>

-----------------------------------------------------------------------------
(* ShardOrderSpec: shardNotes on note collections in any order of          *)
(* creation.  syncUp hands shardNotes the merged notes: the local ones,    *)
(* then the notes only the cloud has, which may be newer than the local.   *)

\* The n notes with ids ids[1..n] and texts of sizes[1..n] units.
RECURSIVE NotesArranged(_, _, _)
NotesArranged(ids, sizes, n) ==
    IF n = 0 THEN <<>>
    ELSE Append(NotesArranged(ids, sizes, n - 1), Note(ids[n], sizes[n], ids[n]))

Arrangements(n) ==
    {ids \in [1..n -> 1..n] : \A i, j \in 1..n : ids[i] = ids[j] => i = j}

ShardOrderInit ==
    /\ \E n \in 0..MaxOrderNotes :
        \E ids \in Arrangements(n), sizes \in [1..n -> 1..MaxNoteUnits] :
            shardInput = NotesArranged(ids, sizes, n)
    /\ shardBase \in ShardBases
    /\ shards = <<>>
    /\ combined = <<>>
    /\ shardPc = "input"
    /\ MergeIdle
    /\ SysIdle

ShardOrderSpec == ShardOrderInit /\ [][ShardNext]_vars

\* C14 (as claimed): no note of a later shard was created after a note of
\* an earlier shard (a note's id is its creation instant).
C14_ShardsNewestFirst ==
    Sharded =>
        \A k, l \in 1..Len(shards) :
            k < l =>
                \A i \in 1..Len(shards[k]), j \in 1..Len(shards[l]) :
                    shards[k][i].id >= shards[l][j].id

-----------------------------------------------------------------------------
(* Spec: the client.  One Local Store, the sync manager of one backend and *)
(* the remote objects it talks to.  An asynchronous operation is one       *)
(* action up to its network request and one action for the response.       *)

Backends == {"gist-sharded", "gist-single", "webdav"}
IsGist == backend \in {"gist-sharded", "gist-single"}

\* Texts a note is saved or edited with: 1 unit, and 3 units (two of which
\* do not fit one shard).
StoreTexts == {1, 3}

\* StorageManager.getCustomTags / getTagColors: [] and {} (the empty
\* function, <<>>) when nothing is stored.
getCustomTags == storeTags
getTagColors == storeColors

\* baseSize of shardNotes for the stored tags and colors.
baseSize == BaseSkeleton

\* A remote gist: its shard files insight-shard-<i>.json by i, and its file
\* insight-notes.json (<<>> when it has none).
\* alive turns FALSE when the gist is deleted at GitHub: requests get 404.
GistObject(shardFileMap, legacy) ==
    [alive |-> TRUE, shards |-> shardFileMap, legacy |-> legacy]

\* files of createGist / updateGist, by shard index 0..n-1.
newShardFiles(data) ==
    LET files == shardFiles(shardNotes(data.notes, baseSize), data)
    IN  [i \in 0..(Len(files) - 1) |-> files[i + 1]]

\* shardData.shardInfo?.index || 0
shardIndex(shardData) ==
    IF "shardInfo" \in DOMAIN shardData THEN shardData.shardInfo.index ELSE 0

\* shardFiles.sort((a, b) => a.index - b.index), then map(f => f.data).
RECURSIVE sortedShardData(_, _)
sortedShardData(fileMap, left) ==
    IF left = {} THEN <<>>
    ELSE LET first == CHOOSE i \in left :
                        \A j \in left :
                            \/ shardIndex(fileMap[i]) < shardIndex(fileMap[j])
                            \/ (shardIndex(fileMap[i]) = shardIndex(fileMap[j]) /\ i <= j)
         IN  <<fileMap[first]>> \o sortedShardData(fileMap, left \ {first})

\* The content of a file that JSON.parse rejects.
Unparseable == [unparseable |-> TRUE]
parses(content) == "unparseable" \notin DOMAIN content

\* The shard files of a gist whose content parses: getGist logs the others
\* and goes on.
parsedShards(gist) == {i \in DOMAIN gist.shards : parses(gist.shards[i])}

\* A mutant of legacyData: getGist without the fallback to the whole file.
legacyDataIgnored(gist) == <<>>

\* The whole file insight-notes.json parsed: <<>> when the gist has no such
\* file or JSON.parse rejects it (getGist throws).
legacyData(gist) ==
    IF gist.legacy # <<>> /\ parses(gist.legacy[1]) THEN gist.legacy ELSE <<>>

\* What getGist returns for a fetched gist: <<>> when it throws.
getGistData(gist) ==
    IF backend = "gist-sharded" /\ parsedShards(gist) # {}
    THEN <<mergeShards(sortedShardData(gist.shards, parsedShards(gist)))>>
    ELSE legacyData(gist)

\* lastResult is <<>>, or what the sync operation that ended with the last
\* step returned ({success, message}) and, for a download, the note ids of
\* the Local Store right before it wrote, of the snapshot it fetched, and of
\* the Local Store right after.
\* message is the kind of text returned: the success text of the
\* operation, error.message of the exception caught, or the text of a
\* response status WebDAV answers with.
Result(op, success, before, cloud, after) ==
    [op |-> op, success |-> success,
     message |-> IF success THEN "success" ELSE "error.message",
     before |-> before, cloud |-> cloud, after |-> after]

\* A mutant of Failure: the exception is not caught and reaches the caller.
Thrown(op) == <<[op |-> op, thrown |-> "error"]>>

\* catch (error) { return { success: false, message: error.message } }
Failure(op) == <<Result(op, FALSE, {}, {}, {})>>
\* return { success: false, message: <text for the status> }
Refused(op, text) == <<[Result(op, FALSE, {}, {}, {}) EXCEPT !.message = text]>>
\* A syncUp that succeeded: the request that carried the snapshot (patch,
\* post or put), the gist it went to and the snapshot.
Uploaded(via, target, data) ==
    <<[op |-> "syncUp", success |-> TRUE, message |-> "success",
       via |-> via, target |-> target, data |-> data]>>

\* How a request ends.  "ok": the server answers by what it holds (2xx, or
\* 404 for what it does not hold).  "401", "507", "500": it answers with
\* that status.  "network": fetch rejects.  "unparseable": it answers 2xx
\* with a body JSON.parse rejects.
ReadOutcomes == {"ok", "401", "500", "network", "unparseable"}
WriteOutcomes == {"ok", "401", "507", "500", "network"}

\* What a WebDAV operation returns for a response that is not a success:
\* a text by status, or the catch block's record.
webdavFailure(op, outcome) ==
    CASE outcome = "ok" -> Refused(op, "not found")
      [] outcome = "401" -> Refused(op, "unauthorized")
      [] outcome = "507" /\ op = "syncUp" -> Refused(op, "no space")
      [] outcome \in {"500", "507"} -> Refused(op, "status")
      [] OTHER -> Failure(op)

\* What an operation returns when its request fails: the Gist managers
\* throw on every response that is not OK and catch in the operation.
requestFailure(op, outcome) ==
    IF backend = "webdav" THEN webdavFailure(op, outcome) ELSE Failure(op)

\* StorageManager.saveNotes: the whole collection is replaced, unless
\* localStorage.setItem throws (no room left); the exception is caught, the
\* user is alerted and the stored collection stays what it was.
saveNotes(stored, notes, hasRoom) == IF hasRoom THEN notes ELSE stored

Init ==
    /\ backend \in Backends
    /\ connected = FALSE
    /\ gistId = NoGist
    /\ storeNotes = <<>>
    /\ lastSync = Undefined
    /\ clock = 1
    /\ gists = <<>>
    /\ davFile = <<>>
    /\ download = <<>>
    /\ uploads = <<>>
    /\ testing = FALSE
    /\ lastResult = <<>>
    /\ MergeIdle
    /\ ShardIdle
    /\ TimerIdle
    /\ TagIdle
    /\ CombineIdle

\* What the store's and the sync operations' steps leave alone.
otherVars == <<mergeVars, shardVars, timerVars, promptVars, combineVars, testing>>
pureVars == <<otherVars, tagVars>>

\* saveToken / saveConfig
Connect ==
    /\ ~connected
    /\ connected' = TRUE
    /\ UNCHANGED <<backend, gistId, storeVars, remoteVars, flightVars, pureVars>>
    /\ lastResult' = <<>>

\* clearToken (the gist id goes with the token) / clearConfig
Disconnect ==
    /\ connected
    /\ connected' = FALSE
    /\ gistId' = NoGist
    /\ UNCHANGED <<backend, storeVars, remoteVars, flightVars, pureVars>>
    /\ lastResult' = <<>>

\* InsightApp.saveNote -> StorageManager.addNote: the new note goes first.
SaveNote ==
    /\ clock <= MaxClock
    /\ \E text \in StoreTexts, hasRoom \in BOOLEAN :
          storeNotes' = saveNotes(storeNotes, <<Note(clock, text, clock)>> \o storeNotes, hasRoom)
    /\ clock' = clock + 1
    /\ UNCHANGED <<lastSync, configVars, remoteVars, flightVars, pureVars>>
    /\ lastResult' = <<>>

\* StorageManager.updateNote
UpdateNote ==
    /\ clock <= MaxClock
    /\ \E k \in 1..Len(storeNotes), text \in StoreTexts, hasRoom \in BOOLEAN :
          storeNotes' = saveNotes(storeNotes,
                                  [storeNotes EXCEPT ![k] = Note(@.id, text, clock)], hasRoom)
    /\ clock' = clock + 1
    /\ UNCHANGED <<lastSync, configVars, remoteVars, flightVars, pureVars>>
    /\ lastResult' = <<>>

\* StorageManager.deleteNote
DeleteNote ==
    /\ \E k \in 1..Len(storeNotes), hasRoom \in BOOLEAN :
          storeNotes' = saveNotes(storeNotes,
                                  SelectSeq(storeNotes, LAMBDA n : n.id # storeNotes[k].id),
                                  hasRoom)
    /\ UNCHANGED <<lastSync, clock, configVars, remoteVars, flightVars, pureVars>>
    /\ lastResult' = <<>>

-----------------------------------------------------------------------------
(* syncDown. *)

\* getGist's checks before its request (token, gist id) / isConnected.
SyncDownStart ==
    /\ download = <<>>
    /\ IF connected /\ (IsGist => gistId # NoGist)
       THEN /\ download' = <<[target |-> gistId]>>
            /\ lastResult' = <<>>
       ELSE /\ lastResult' = Failure("syncDown")
            /\ UNCHANGED download
    /\ UNCHANGED <<configVars, storeVars, remoteVars, uploads, pureVars>>

\* The snapshot an OK response to the download's GET yields: <<>> when the
\* status is not OK (a deleted gist, no file at the WebDAV path) or getGist
\* finds no backup file in the gist.
fetched(target) ==
    IF backend = "webdav" THEN davFile
    ELSE IF gists[target].alive THEN getGistData(gists[target]) ELSE <<>>

\* The notes each syncDown saves, from the local notes and the snapshot's.
syncDownNotesSharded(local, cloud) == mergeNotes(local, cloud)
syncDownNotesSingle(local, cloud) == cloud
syncDownNotesWebDAV(local, cloud) == cloud

syncDownNotes(local, cloud) ==
    CASE backend = "gist-sharded" -> syncDownNotesSharded(local, cloud)
      [] backend = "gist-single" -> syncDownNotesSingle(local, cloud)
      [] backend = "webdav" -> syncDownNotesWebDAV(local, cloud)

\* The custom tags each syncDown saves, from the local tags and the
\* snapshot's.  Sharded: [...new Set([...localTags, ...cloudData.customTags])];
\* the tags are objects parsed from two JSON texts, no two of them are the
\* same object, and the Set keeps them all.
syncDownTagsSharded(local, cloud) == local \o cloud
syncDownTagsSingle(local, cloud) == cloud
syncDownTagsWebDAV(local, cloud) == cloud

syncDownTags(local, cloud) ==
    CASE backend = "gist-sharded" -> syncDownTagsSharded(local, cloud)
      [] backend = "gist-single" -> syncDownTagsSingle(local, cloud)
      [] backend = "webdav" -> syncDownTagsWebDAV(local, cloud)

\* StorageManager.saveCustomTags: a setItem that throws is caught and logged.
saveCustomTags(stored, tags, hasRoom) == IF hasRoom THEN tags ELSE stored

\* The syncDown of the sharded Gist and of WebDAV stores the snapshot's
\* tagColors; the single-file Gist syncDown has no such statement.
storesTagColors == backend \in {"gist-sharded", "webdav"}

\* The response arrives; the rest of syncDown runs without interruption.
\* The setItem of the tag colors is not guarded: when it throws, syncDown's
\* catch returns a failure after the notes and tags were saved.
SyncDownResponse ==
    /\ download # <<>>
    /\ download' = <<>>
    /\ \E outcome \in ReadOutcomes :
          LET body == IF outcome = "ok" THEN fetched(download[1].target) ELSE <<>>
              setsColors == body # <<>> /\ storesTagColors /\ "tagColors" \in DOMAIN body[1]
          IN  IF body = <<>>
              THEN /\ lastResult' = requestFailure("syncDown", outcome)
                   /\ UNCHANGED <<storeNotes, lastSync, tagVars>>
              ELSE \E hasRoom \in BOOLEAN, tagsRoom \in BOOLEAN, colorsRoom \in BOOLEAN :
                   /\ storeNotes' =
                        IF "notes" \in DOMAIN body[1]
                        THEN saveNotes(storeNotes,
                                       syncDownNotes(storeNotes, body[1].notes), hasRoom)
                        ELSE storeNotes
                   /\ storeTags' =
                        IF "customTags" \in DOMAIN body[1]
                        THEN saveCustomTags(storeTags,
                                            syncDownTags(storeTags, body[1].customTags),
                                            tagsRoom)
                        ELSE storeTags
                   /\ IF setsColors /\ ~colorsRoom
                      THEN /\ lastResult' = Failure("syncDown")
                           /\ UNCHANGED <<storeColors, lastSync>>
                      ELSE /\ storeColors' =
                                IF setsColors THEN body[1].tagColors ELSE storeColors
                           /\ lastSync' = <<clock>>
                           /\ lastResult' = <<Result("syncDown", TRUE, Ids(storeNotes),
                                                     Ids(body[1].notes), Ids(storeNotes'))>>
    /\ UNCHANGED <<clock, configVars, remoteVars, uploads, otherVars>>

-----------------------------------------------------------------------------
(* syncUp. *)

MAX_SIZE == 1024 * 1024
WARNING_SIZE == 800 * 1024

\* new Blob([JSON.stringify(data, null, 2)]).size
snapshotSize(data) == estimatedSize(data.notes, baseSize)

\* A syncUp waiting for the response to its request `phase`.
Request(phase, data, target) ==
    [phase |-> phase, data |-> data, target |-> target, stale |-> {}]

Remove(seq, k) == SubSeq(seq, 1, k - 1) \o SubSeq(seq, k + 1, Len(seq))
\* Upload k goes on with its next request, or ends.
GoOn(k, request) ==
    IF request = <<>> THEN Remove(uploads, k) ELSE [uploads EXCEPT ![k] = request[1]]

\* createGist up to its POST: <<>> when it throws for want of a token.
createGistRequest(data) ==
    IF connected THEN <<Request("post", data, NoGist)>> ELSE <<>>

\* updateGist up to its first request, with the token and gist id stored
\* now: <<>> when it throws for want of a token.
updateGistRequest(data) ==
    IF ~connected THEN <<>>
    ELSE IF gistId = NoGist THEN createGistRequest(data)
    ELSE IF backend = "gist-sharded" THEN <<Request("get", data, gistId)>>
    ELSE <<Request("patch", data, gistId)>>

\* A mutant of syncUpRequest: the single-file syncUp without its size check.
syncUpRequestNoCap(data) ==
    CASE backend = "gist-sharded" ->
            IF gistId # NoGist /\ connected
            THEN <<Request("getGist", data, gistId)>>
            ELSE updateGistRequest(data)
      [] backend = "gist-single" -> updateGistRequest(data)
      [] backend = "webdav" ->
            IF connected THEN <<Request("put", data, NoGist)>> ELSE <<>>

\* syncUp up to its first request: <<>> when it returns before any.
syncUpRequest(data) ==
    CASE backend = "gist-sharded" ->
            IF gistId # NoGist /\ connected
            THEN <<Request("getGist", data, gistId)>>
            ELSE updateGistRequest(data)
      [] backend = "gist-single" ->
            IF snapshotSize(data) >= MAX_SIZE THEN <<>> ELSE updateGistRequest(data)
      [] backend = "webdav" ->
            IF connected THEN <<Request("put", data, NoGist)>> ELSE <<>>

\* What syncUp returns when it ends before any request: the single-file
\* syncUp's {success: false, message, size, warning: 'critical'} for a
\* snapshot at or past MAX_SIZE, else the catch block's record.
syncUpRefusal(data) ==
    IF backend = "gist-single" /\ snapshotSize(data) >= MAX_SIZE
    THEN Refused("syncUp", "too large")
    ELSE Failure("syncUp")

\* Single-file syncUp's capacity warning: the snapshot is past the warning
\* size (and below MAX_SIZE, or syncUp has returned), and no warning was
\* given yet or the last one is more than 24 hours old.
sizeWarned(data, lastWarning, now, dayPassed) ==
    /\ backend = "gist-single"
    /\ snapshotSize(data) < MAX_SIZE
    /\ snapshotSize(data) >= WARNING_SIZE
    /\ (lastWarning = Undefined \/ (dayPassed /\ now > lastWarning[1]))

\* syncUp is called by `by` (the user or the auto-sync timer) while fewer
\* than maxInFlight calls are in flight: nothing in syncUp looks at the
\* calls already running.  The single-file syncUp that warns of the size
\* records the instant and sets a timeout of 500 ms that calls alert().
syncUpCall(maxInFlight, by) ==
    /\ Len(uploads) < maxInFlight
    /\ \E dayPassed \in BOOLEAN :
          LET data == snapshotOf(storeNotes, getCustomTags, getTagColors, clock)
              request == syncUpRequest(data)
              warned == sizeWarned(data, sizeWarning, clock, dayPassed)
          IN  /\ IF request = <<>>
                 THEN /\ lastResult' = syncUpRefusal(data)
                      /\ UNCHANGED uploads
                 ELSE /\ uploads' = Append(uploads, request[1])
                      /\ lastResult' = <<>>
              /\ sizeWarning' = IF warned THEN <<clock>> ELSE sizeWarning
              /\ alerts' = IF warned THEN alerts \cup {by} ELSE alerts
    /\ UNCHANGED <<configVars, storeVars, remoteVars, download, mergeVars, shardVars,
                   tagVars, combineVars, testing>>

SyncUpStartWithin(maxInFlight) ==
    /\ syncUpCall(maxInFlight, "user")
    /\ UNCHANGED timerVars

SyncUpStart == SyncUpStartWithin(MaxUploads)

\* Sharded syncUp: the cloud data arrives (or getGist throws and is caught),
\* the notes to upload are merged, updateGist begins.
UpGetGistResponse ==
    \E k \in 1..Len(uploads), outcome \in ReadOutcomes :
        /\ uploads[k].phase = "getGist"
        /\ LET u == uploads[k]
               ok == outcome = "ok"
               body == IF ok /\ gists[u.target].alive
                       THEN getGistData(gists[u.target]) ELSE <<>>
               notesToUpload ==
                   IF body # <<>> /\ "notes" \in DOMAIN body[1]
                   THEN mergeNotes(u.data.notes, body[1].notes)
                   ELSE u.data.notes
               request == updateGistRequest(
                   snapshotOf(notesToUpload, getCustomTags, getTagColors, clock))
           IN  /\ uploads' = GoOn(k, request)
               /\ lastResult' = IF request = <<>> THEN Failure("syncUp") ELSE <<>>
        /\ UNCHANGED <<configVars, storeVars, remoteVars, download, pureVars>>

\* Sharded updateGist: the existing gist arrives; its shard files that the
\* new shard set does not name are marked for deletion.  A failed fetch
\* marks none.
UpExistingResponse ==
    \E k \in 1..Len(uploads), outcome \in ReadOutcomes :
        /\ uploads[k].phase = "get"
        /\ LET u == uploads[k]
               ok == outcome = "ok"
               stale == IF ok /\ gists[u.target].alive
                        THEN DOMAIN gists[u.target].shards \ DOMAIN newShardFiles(u.data)
                        ELSE {}
           IN  uploads' = [uploads EXCEPT ![k] = [u EXCEPT !.phase = "patch", !.stale = stale]]
        /\ lastResult' = <<>>
        /\ UNCHANGED <<configVars, storeVars, remoteVars, download, pureVars>>

\* The gist after a PATCH: files named in the request are written, files
\* named with null are deleted, the others stay.
patchedGist(gist, u) ==
    IF backend = "gist-sharded"
    THEN LET files == newShardFiles(u.data)
         IN  [gist EXCEPT !.shards =
                 [i \in (DOMAIN gist.shards \ u.stale) \cup DOMAIN files |->
                     IF i \in DOMAIN files THEN files[i] ELSE gist.shards[i]]]
    ELSE [gist EXCEPT !.legacy = <<u.data>>]

\* A mutant of handleAfterMissing: the id of the missing gist stays stored.
handleKeptAfterMissing(stored) == stored

\* localStorage.removeItem(GIST_ID_KEY) on a 404.
handleAfterMissing(stored) == NoGist

\* updateGist: the PATCH is answered.  OK: syncUp succeeds.  404: the gist
\* id is forgotten and createGist begins.  Anything else: syncUp fails.
UpPatchResponse ==
    \E k \in 1..Len(uploads), outcome \in WriteOutcomes :
        /\ uploads[k].phase = "patch"
        /\ LET u == uploads[k]
               ok == outcome = "ok"
           IN  IF ~ok
               THEN /\ uploads' = Remove(uploads, k)
                    /\ lastResult' = Failure("syncUp")
                    /\ UNCHANGED <<gistId, gists, lastSync>>
               ELSE IF gists[u.target].alive
               THEN /\ gists' = [gists EXCEPT ![u.target] = patchedGist(@, u)]
                    /\ lastSync' = <<clock>>
                    /\ uploads' = Remove(uploads, k)
                    /\ lastResult' = Uploaded("patch", u.target, u.data)
                    /\ UNCHANGED gistId
               ELSE /\ gistId' = handleAfterMissing(gistId)
                    /\ uploads' = GoOn(k, createGistRequest(u.data))
                    /\ lastResult' = IF connected THEN <<>> ELSE Failure("syncUp")
                    /\ UNCHANGED <<gists, lastSync>>
        /\ UNCHANGED <<backend, connected, storeNotes, clock, davFile, download, pureVars>>

\* The gist createGist's POST creates.
createdGist(data) ==
    IF backend = "gist-sharded"
    THEN GistObject(newShardFiles(data), <<>>)
    ELSE GistObject(<<>>, <<data>>)

\* createGist: the POST is answered; the new gist's id is stored.  GitHub
\* holds fewer than maxGists gists of this client when it creates one.
UpPostResponseWithin(maxGists) ==
    \E k \in 1..Len(uploads), outcome \in WriteOutcomes :
        /\ uploads[k].phase = "post"
        /\ uploads' = Remove(uploads, k)
        /\ IF outcome = "ok"
           THEN /\ Len(gists) < maxGists
                /\ gists' = Append(gists, createdGist(uploads[k].data))
                /\ gistId' = Len(gists')
                /\ lastSync' = <<clock>>
                /\ lastResult' = Uploaded("post", Len(gists'), uploads[k].data)
           ELSE /\ lastResult' = Failure("syncUp")
                /\ UNCHANGED <<gistId, gists, lastSync>>
        /\ UNCHANGED <<backend, connected, storeNotes, clock, davFile, download, pureVars>>

UpPostResponse == UpPostResponseWithin(MaxGists)

\* WebDAV syncUp: the PUT is answered.
UpPutResponse ==
    \E k \in 1..Len(uploads), outcome \in WriteOutcomes :
        /\ uploads[k].phase = "put"
        /\ uploads' = Remove(uploads, k)
        /\ IF outcome = "ok"
           THEN /\ davFile' = <<uploads[k].data>>
                /\ lastSync' = <<clock>>
                /\ lastResult' = Uploaded("put", NoGist, uploads[k].data)
           ELSE /\ lastResult' = webdavFailure("syncUp", outcome)
                /\ UNCHANGED <<davFile, lastSync>>
        /\ UNCHANGED <<configVars, storeNotes, clock, gists, download, pureVars>>

\* WebDAVSyncManager.testConnection up to its PROPFIND; the Gist managers
\* have no testConnection.  It reads the configuration whatever it is.
TestConnectionStart ==
    /\ backend = "webdav"
    /\ ~testing
    /\ testing' = TRUE
    /\ lastResult' = <<>>
    /\ UNCHANGED <<configVars, storeVars, remoteVars, flightVars, mergeVars, shardVars,
                   timerVars, promptVars, tagVars, combineVars>>

\* The PROPFIND is answered: OK or 207 is a success, every other status a
\* text, a rejected fetch the catch block's record.
TestConnectionResponse ==
    /\ testing
    /\ testing' = FALSE
    /\ \E outcome \in ReadOutcomes \ {"unparseable"} :
          lastResult' = IF outcome = "ok" /\ connected
                        THEN <<Result("testConnection", TRUE, {}, {}, {})>>
                        ELSE IF outcome = "ok"
                        THEN Refused("testConnection", "status")
                        ELSE IF outcome = "network"
                        THEN Refused("testConnection", "network: error.message")
                        ELSE webdavFailure("testConnection", outcome)
    /\ UNCHANGED <<configVars, storeVars, remoteVars, flightVars, mergeVars, shardVars,
                   timerVars, promptVars, tagVars, combineVars>>

\* The gist is deleted at GitHub: every later request for it gets 404.
DeleteGist ==
    /\ \E g \in 1..Len(gists) :
          /\ gists[g].alive
          /\ gists' = [gists EXCEPT ![g].alive = FALSE]
    /\ lastResult' = <<>>
    /\ UNCHANGED <<configVars, storeVars, davFile, flightVars, pureVars>>

Next ==
    \/ Connect
    \/ Disconnect
    \/ SaveNote
    \/ UpdateNote
    \/ DeleteNote
    \/ SyncDownStart
    \/ SyncDownResponse
    \/ SyncUpStart
    \/ UpGetGistResponse
    \/ UpExistingResponse
    \/ UpPatchResponse
    \/ UpPostResponse
    \/ UpPutResponse
    \/ TestConnectionStart
    \/ TestConnectionResponse
    \/ DeleteGist

Spec == Init /\ [][Next]_vars

-----------------------------------------------------------------------------
(* UploadSpec: the uploads of a connected client whose store is not        *)
(* touched: syncUp called while other calls are in flight (the button, the *)
(* auto-sync timer), their responses, and gists deleted at GitHub.         *)

UploadStores == {<<>>, <<Note(1, 1, 1)>>, <<Note(1, 3, 1)>>}

UploadInit ==
    /\ backend \in Backends
    /\ connected = TRUE
    /\ gistId = NoGist
    /\ storeNotes \in UploadStores
    /\ lastSync = Undefined
    /\ clock = 2
    /\ gists = <<>>
    /\ davFile = <<>>
    /\ download = <<>>
    /\ uploads = <<>>
    /\ testing = FALSE
    /\ lastResult = <<>>
    /\ MergeIdle
    /\ ShardIdle
    /\ TimerIdle
    /\ TagIdle
    /\ CombineIdle

OverlappingSyncUpStart == SyncUpStartWithin(MaxOverlap)
RemakingUpPostResponse == UpPostResponseWithin(MaxRemade)

UploadNext ==
    \/ OverlappingSyncUpStart
    \/ UpGetGistResponse
    \/ UpExistingResponse
    \/ UpPatchResponse
    \/ RemakingUpPostResponse
    \/ UpPutResponse
    \/ DeleteGist

UploadSpec == UploadInit /\ [][UploadNext]_vars

-----------------------------------------------------------------------------
(* TimerSpec: the auto-sync scheduler (startAutoSync, stopAutoSync,        *)
(* setAutoSyncEnabled, setSyncInterval; the same code in the three         *)
(* managers) of a client that connects and disconnects.                    *)

\* The minutes the interval setting is given.
SyncIntervals == {5, 10, 30, 60}

\* parseInt(localStorage.getItem(SYNC_INTERVAL_KEY) || '10')
storedInterval(intervalKey) == IF intervalKey = Undefined THEN 10 ELSE intervalKey[1]

\* localStorage.getItem(AUTO_SYNC_KEY) === 'true'
storedEnabled(enabledKey) == enabledKey = <<TRUE>>

\* The id setInterval returns: one no running timer has.
newTimerId(running) ==
    CHOOSE id \in 1..(Cardinality(running) + 1) : \A t \in running : t.id # id

\* setInterval(callback, period): the timer the browser starts.
newTimer(id, period) == [id |-> id, period |-> period, elapsed |-> 0]

\* A mutant of stopAutoSync: the field is nulled, the timer is not cleared.
stopAutoSyncFieldOnly(timer, running) == [timer |-> NoTimer, timers |-> running]

\* stopAutoSync: the timer held by autoSyncTimer is cleared, the field nulled.
stopAutoSync(timer, running) ==
    IF timer # NoTimer
    THEN [timer |-> NoTimer, timers |-> {t \in running : t.id # timer}]
    ELSE [timer |-> timer, timers |-> running]

\* A mutant of startAutoSync: the timer already set is not stopped first.
startAutoSyncNoStop(timer, running, enabledKey, intervalKey) ==
    IF storedEnabled(enabledKey) /\ connected
    THEN LET id == newTimerId(running)
         IN  [timer |-> id,
              timers |-> running \cup
                  {newTimer(id, storedInterval(intervalKey) * 60 * 1000)}]
    ELSE [timer |-> timer, timers |-> running]

\* A mutant of startAutoSync: the timer is set whether or not credentials
\* are stored.
startAutoSyncNoCredentials(timer, running, enabledKey, intervalKey) ==
    LET stopped == stopAutoSync(timer, running)
    IN  IF storedEnabled(enabledKey)
        THEN LET id == newTimerId(stopped.timers)
             IN  [timer |-> id,
                  timers |-> stopped.timers \cup
                      {newTimer(id, storedInterval(intervalKey) * 60 * 1000)}]
        ELSE stopped

\* startAutoSync with the settings stored at the call: the field
\* autoSyncTimer and the running timers after it.
startAutoSync(timer, running, enabledKey, intervalKey) ==
    LET stopped == stopAutoSync(timer, running)
    IN  IF storedEnabled(enabledKey) /\ connected
        THEN LET id == newTimerId(stopped.timers)
             IN  [timer |-> id,
                  timers |-> stopped.timers \cup
                      {newTimer(id, storedInterval(intervalKey) * 60 * 1000)}]
        ELSE stopped

\* The stores of TimerSpec: empty, and one note that takes the snapshot
\* past WARNING_SIZE.
TimerStores == {<<>>, <<Note(1, 4, 1)>>}

TimerInit ==
    /\ backend \in Backends
    /\ connected = FALSE
    /\ gistId = NoGist
    /\ storeNotes \in TimerStores
    /\ lastSync = Undefined
    /\ clock = 2
    /\ gists = <<>>
    /\ davFile = <<>>
    /\ download = <<>>
    /\ uploads = <<>>
    /\ testing = FALSE
    /\ lastResult = <<>>
    /\ MergeIdle
    /\ ShardIdle
    /\ TimerIdle
    /\ TagIdle
    /\ CombineIdle

timerFrame == <<configVars, storeVars, remoteVars, flightVars, lastResult, mergeVars, shardVars,
               promptVars, tagVars, combineVars, testing>>

StartAutoSync ==
    /\ LET after == startAutoSync(autoSyncTimer, timers, autoSyncEnabled, syncInterval)
       IN  /\ autoSyncTimer' = after.timer
           /\ timers' = after.timers
    /\ UNCHANGED <<autoSyncEnabled, syncInterval, timerFrame>>

StopAutoSync ==
    /\ LET after == stopAutoSync(autoSyncTimer, timers)
       IN  /\ autoSyncTimer' = after.timer
           /\ timers' = after.timers
    /\ UNCHANGED <<autoSyncEnabled, syncInterval, timerFrame>>

SetAutoSyncEnabled ==
    /\ \E enabled \in BOOLEAN :
          /\ autoSyncEnabled' = <<enabled>>
          /\ LET after == IF enabled
                          THEN startAutoSync(autoSyncTimer, timers, autoSyncEnabled', syncInterval)
                          ELSE stopAutoSync(autoSyncTimer, timers)
             IN  /\ autoSyncTimer' = after.timer
                 /\ timers' = after.timers
    /\ UNCHANGED <<syncInterval, timerFrame>>

SetSyncInterval ==
    /\ \E minutes \in SyncIntervals :
          /\ syncInterval' = <<minutes>>
          /\ LET after == IF storedEnabled(autoSyncEnabled)
                          THEN startAutoSync(autoSyncTimer, timers, autoSyncEnabled, syncInterval')
                          ELSE [timer |-> autoSyncTimer, timers |-> timers]
             IN  /\ autoSyncTimer' = after.timer
                 /\ timers' = after.timers
    /\ UNCHANGED <<autoSyncEnabled, timerFrame>>

\* Time is counted in steps of Tick minutes, which divide every interval.
Tick == 5

\* Tick minutes pass with no timer due: the browser calls a due timer's
\* callback before more time passes.
Advance ==
    /\ timers # {}
    /\ \A t \in timers : t.elapsed < t.period
    /\ timers' = {[t EXCEPT !.elapsed = @ + Tick * 60 * 1000] : t \in timers}
    /\ UNCHANGED <<autoSyncEnabled, syncInterval, autoSyncTimer, timerFrame>>

\* A mutant of afterFiring: the timer is spent by its firing (setTimeout).
afterFiringOnce(running, id) == {t \in running : t.id # id}

\* The timers after the callback of timer id was called: an interval timer
\* stays set, its next call is one period later.
afterFiring(running, id) ==
    {IF t.id = id THEN [t EXCEPT !.elapsed = 0] ELSE t : t \in running}

\* The callback of the auto-sync timer: a due timer fires, syncUp is called.
AutoSyncFire ==
    /\ \E t \in timers :
          /\ t.elapsed >= t.period
          /\ timers' = afterFiring(timers, t.id)
    /\ syncUpCall(MaxOverlap, "timer")
    /\ UNCHANGED <<autoSyncEnabled, syncInterval, autoSyncTimer>>

TimerNext ==
    \/ Connect
    \/ Disconnect
    \/ StartAutoSync
    \/ StopAutoSync
    \/ SetAutoSyncEnabled
    \/ SetSyncInterval
    \/ Advance
    \/ AutoSyncFire
    \/ UpGetGistResponse
    \/ UpExistingResponse
    \/ UpPatchResponse
    \/ UpPostResponse
    \/ UpPutResponse

TimerSpec == TimerInit /\ [][TimerNext]_vars

-----------------------------------------------------------------------------
(* CombineSpec: mergeShards on shard files as a gist may hold them: with   *)
(* or without notes, customTags, tagColors and syncTime, and with copies   *)
(* of one note in several files.                                           *)

\* A JSON object with the key or without it.
Optional(key, values) == {<<>>} \cup {[k \in {key} |-> v] : v \in values}
\* Object spread of two objects with different keys.
Joined(f, g) == [k \in DOMAIN f \cup DOMAIN g |-> IF k \in DOMAIN f THEN f[k] ELSE g[k]]

ShardFileNotes == {<<>>, <<Note(1, 1, 1)>>, <<Note(1, 2, 2)>>}
ShardFileTags ==
    {<<[id |-> 1, name |-> <<"#", "a">>, createdAt |-> 1]>>,
     <<[id |-> 2, name |-> <<"#", "b">>, createdAt |-> 2]>>}
ShardFileColors == {[n \in {<<"#", "a">>} |-> 1], [n \in {<<"#", "a">>} |-> 2]}
ShardFileTimes == {1, 2}

ShardFileData ==
    {Joined(Joined([notes |-> notes], tags), Joined(colors, time)) :
        notes \in ShardFileNotes,
        tags \in Optional("customTags", ShardFileTags),
        colors \in Optional("tagColors", ShardFileColors),
        time \in Optional("syncTime", ShardFileTimes)}

CombineInit ==
    /\ \E n \in 1..MaxShardFiles :
          \E files \in [1..n -> ShardFileData] : shardDataIn = files
    /\ shardDataOut = <<>>
    /\ gistData = <<>>
    /\ MergeIdle
    /\ ShardIdle
    /\ ClientIdle

combineFrame ==
    <<mergeVars, shardVars, configVars, storeVars, remoteVars, flightVars, lastResult,
      timerVars, promptVars, tagVars, testing>>

CombineShards ==
    /\ shardDataOut = <<>>
    /\ shardDataOut' = <<mergeShards(shardDataIn)>>
    /\ UNCHANGED <<shardDataIn, gistData, combineFrame>>

CombineNext == CombineShards

CombineSpec == CombineInit /\ [][CombineNext]_vars

-----------------------------------------------------------------------------
(* GetGistSpec: getGist and the sharded syncDown on a gist as GitHub may   *)
(* hold it: shard files missing, shard files whose content does not parse, *)
(* no shard file at all, with or without the whole file insight-notes.json.*)

\* The content of file insight-shard-<i>.json: what createGist and
\* updateGist wrote as shard i of `total`, or a text that does not parse.
GistShardContents(i) ==
    {Unparseable} \cup
    {[notes |-> notes, customTags |-> <<>>, tagColors |-> <<>>, syncTime |-> 1,
      version |-> "1.0", shardInfo |-> [index |-> i, total |-> total]] :
        notes \in {<<>>, <<Note(i + 1, 1, 1)>>},
        total \in (i + 1)..(MaxShardFiles + 1)}

\* The content of insight-notes.json: no such file, a text that does not
\* parse, or a snapshot of one note.
GistLegacyContents ==
    {<<>>, <<Unparseable>>,
     <<snapshotOf(<<Note(MaxShardFiles + 1, 1, 1)>>, <<>>, <<>>, 1)>>}

\* The Local Store when the download begins: empty, or note 1 edited.
GetGistStores == {<<>>, <<Note(1, 3, 2)>>}

GetGistInit ==
    /\ backend = "gist-sharded"
    /\ connected = TRUE
    /\ gistId = 1
    /\ \E present \in SUBSET (0..(MaxShardFiles - 1)), legacy \in GistLegacyContents :
          \E files \in [present -> UNION {GistShardContents(i) : i \in present}] :
              /\ \A i \in present : files[i] \in GistShardContents(i)
              /\ gists = <<GistObject(files, legacy)>>
    /\ davFile = <<>>
    /\ storeNotes \in GetGistStores
    /\ lastSync = Undefined
    /\ clock = 3
    /\ download = <<>>
    /\ uploads = <<>>
    /\ testing = FALSE
    /\ lastResult = <<>>
    /\ gistData = <<>>
    /\ shardDataIn = <<>>
    /\ shardDataOut = <<>>
    /\ MergeIdle
    /\ ShardIdle
    /\ TimerIdle
    /\ TagIdle

\* getGist: it throws without a token or a gist id and on a response that
\* is not OK or has no JSON body; else it returns what the gist's files give.
GetGist ==
    /\ gistData = <<>>
    /\ \E outcome \in ReadOutcomes :
          gistData' = <<[response |-> outcome,
                         returned |-> IF connected /\ gistId # NoGist /\ outcome = "ok"
                                      THEN fetched(gistId) ELSE <<>>]>>
    /\ lastResult' = <<>>
    /\ UNCHANGED <<configVars, storeVars, remoteVars, flightVars, mergeVars, shardVars,
                   timerVars, promptVars, tagVars, testing, shardDataIn, shardDataOut>>

GetGistNext ==
    \/ GetGist
    \/ SyncDownStart
    \/ SyncDownResponse

GetGistSpec == GetGistInit /\ [][GetGistNext]_vars

-----------------------------------------------------------------------------
(* TagSpec: the custom tags and tag colors of the Local Store             *)
(* (StorageManager.addCustomTag, deleteCustomTag, saveTagColor) and the    *)
(* downloads of a connected client from a remote that carries some.        *)

\* A tag name is its characters; the names typed, with and without marker.
TagInputs == {<<"a">>, <<"#", "a">>, <<"#", "b">>}

\* tagName.startsWith('#') ? tagName : `#${tagName}`
formattedTag(tagName) ==
    IF Len(tagName) > 0 /\ tagName[1] = "#" THEN tagName ELSE <<"#">> \o tagName

\* {id: Date.now().toString(), name, createdAt: new Date().toISOString()}
Tag(id, name) == [id |-> id, name |-> name, createdAt |-> id]

\* Palette indexes a color is chosen from (of 0..7).
PaletteIndexes == {0, 1}

\* colors[tagName] = colorIndex
withColor(colors, tagName, colorIndex) ==
    [n \in DOMAIN colors \cup {tagName} |->
        IF n = tagName THEN colorIndex ELSE colors[n]]

\* What the remote holds: no custom tag or the tag #a, and a color map
\* (empty, or #a |-> 1) or, written before colors were synchronised, none.
RemoteTagLists == {<<>>, <<Tag(1, <<"#", "a">>)>>}
RemoteColorMaps == {<<>>, withColor(<<>>, <<"#", "a">>, 1)}
RemoteSnapshots ==
    {snapshotOf(<<>>, tags, colors, 1) : tags \in RemoteTagLists, colors \in RemoteColorMaps}
    \cup {[notes |-> <<>>, customTags |-> tags, syncTime |-> 1, version |-> "1.0"] :
             tags \in RemoteTagLists}

\* The one shard file of a snapshot with no note.
onlyShardFile(data) ==
    [k \in DOMAIN data \cup {"shardInfo"} |->
        IF k = "shardInfo" THEN [index |-> 0, total |-> 1] ELSE data[k]]

TagInit ==
    /\ backend \in Backends
    /\ connected = TRUE
    /\ \E data \in RemoteSnapshots :
          CASE backend = "gist-sharded" ->
                  /\ gists = <<GistObject([i \in {0} |-> onlyShardFile(data)], <<>>)>>
                  /\ gistId = 1
                  /\ davFile = <<>>
            [] backend = "gist-single" ->
                  /\ gists = <<GistObject(<<>>, <<data>>)>>
                  /\ gistId = 1
                  /\ davFile = <<>>
            [] backend = "webdav" ->
                  /\ gists = <<>>
                  /\ gistId = NoGist
                  /\ davFile = <<data>>
    /\ storeNotes = <<>>
    /\ lastSync = Undefined
    /\ clock = 1
    /\ download = <<>>
    /\ uploads = <<>>
    /\ testing = FALSE
    /\ lastResult = <<>>
    /\ MergeIdle
    /\ ShardIdle
    /\ TimerIdle
    /\ TagIdle
    /\ CombineIdle

tagFrame == <<configVars, storeNotes, lastSync, remoteVars, flightVars, otherVars>>

\* StorageManager.addCustomTag: a name already there is refused, a new tag
\* goes first.
AddCustomTag ==
    /\ clock <= MaxClock
    /\ \E tagName \in TagInputs, hasRoom \in BOOLEAN :
          IF \E k \in 1..Len(storeTags) : storeTags[k].name = formattedTag(tagName)
          THEN UNCHANGED <<storeTags, clock>>
          ELSE /\ storeTags' = saveCustomTags(storeTags,
                                     <<Tag(clock, formattedTag(tagName))>> \o storeTags,
                                     hasRoom)
               /\ clock' = clock + 1
    /\ lastResult' = <<>>
    /\ UNCHANGED <<storeColors, tagFrame>>

\* StorageManager.deleteCustomTag
DeleteCustomTag ==
    /\ \E k \in 1..Len(storeTags), hasRoom \in BOOLEAN :
          storeTags' = saveCustomTags(storeTags,
                           SelectSeq(storeTags, LAMBDA t : t.id # storeTags[k].id),
                           hasRoom)
    /\ lastResult' = <<>>
    /\ UNCHANGED <<storeColors, clock, tagFrame>>

\* StorageManager.saveTagColor: nothing is stored when setItem throws.
SaveTagColor ==
    /\ \E tagName \in {formattedTag(n) : n \in TagInputs},
          colorIndex \in PaletteIndexes, hasRoom \in BOOLEAN :
          storeColors' = IF hasRoom THEN withColor(storeColors, tagName, colorIndex)
                         ELSE storeColors
    /\ lastResult' = <<>>
    /\ UNCHANGED <<storeTags, clock, tagFrame>>

\* A download begins while the store holds fewer than MaxTags custom tags.
TagSyncDownStart ==
    /\ Len(storeTags) < MaxTags
    /\ SyncDownStart

TagNext ==
    \/ AddCustomTag
    \/ DeleteCustomTag
    \/ SaveTagColor
    \/ TagSyncDownStart
    \/ SyncDownResponse

TagSpec == TagInit /\ [][TagNext]_vars

-----------------------------------------------------------------------------
(* Claims about the client, checked under Spec.                            *)

\* C1 (as claimed): after a successful syncDown of any backend, every note
\* id the Local Store held right before the download wrote and every note
\* id of the remote snapshot is in the Local Store.
C1_DownloadLosesNothing ==
    (lastResult # <<>> /\ lastResult[1].op = "syncDown" /\ lastResult[1].success) =>
        (lastResult[1].before \cup lastResult[1].cloud) \subseteq lastResult[1].after

\* A sharded syncUp has just succeeded by patching its gist.
PatchedSharded ==
    /\ backend = "gist-sharded"
    /\ lastResult # <<>>
    /\ lastResult[1].op = "syncUp"
    /\ lastResult[1].success
    /\ lastResult[1].via = "patch"

\* C15 (as claimed): after a successful upload to an existing gist, the
\* gist's shard files are exactly the files of the new shard set, file i
\* carrying shardInfo {index: i, total: n}; no older shard file is left.
C15_NoStaleShardFiles ==
    PatchedSharded =>
        gists[lastResult[1].target].shards = newShardFiles(lastResult[1].data)

\* C19 (as claimed): while no credentials are stored, a step of an upload
\* in flight changes neither the stored gist id nor the last-sync time.
C19_ClearedCredentialsDiscard ==
    [][(~connected /\ ~connected' /\ uploads' # uploads) =>
            (gistId' = gistId /\ lastSync' = lastSync)]_vars

-----------------------------------------------------------------------------
(* Claims about overlapping uploads and the gist id, checked under         *)
(* UploadSpec (the user never disconnects there).                          *)

\* A syncUp to a gist has just succeeded.
UploadedToGist ==
    /\ IsGist
    /\ lastResult # <<>>
    /\ lastResult[1].op = "syncUp"
    /\ lastResult[1].success

\* C16 (as claimed): as long as no gist of the client has gone missing,
\* one gist has been created at most, and every successful upload went to it.
C16_HandleCreatedOnce ==
    (\A g \in 1..Len(gists) : gists[g].alive) =>
        /\ Len(gists) <= 1
        /\ UploadedToGist => lastResult[1].target = 1

\* The steps of upload k, seen from the two states of a step.
ChangedInPlace(k) == Len(uploads') = Len(uploads) /\ uploads'[k] # uploads[k]
Ended(k) == Len(uploads') = Len(uploads) - 1 /\ uploads' = Remove(uploads, k)
TargetGone(k) == ~gists[uploads[k].target].alive

\* C17: an upload leaves its PATCH for another request only on a 404; the
\* stored gist id is then cleared and the request is the POST of createGist
\* with the same snapshot.  A PATCH to a missing gist never ends in success.
\* The POST is the last request of its upload: answered with a failure, the
\* upload ends with success false and nothing stored; answered OK, the new
\* gist's id is stored.
C17_OneRecreationAfter404 ==
    [][\A k \in 1..Len(uploads) :
          /\ (uploads[k].phase = "patch" /\ ChangedInPlace(k)) =>
                /\ TargetGone(k)
                /\ gistId' = NoGist
                /\ uploads'[k] = Request("post", uploads[k].data, NoGist)
          /\ (uploads[k].phase = "patch" /\ TargetGone(k) /\ Ended(k)) =>
                /\ lastResult' = Failure("syncUp")
                /\ gists' = gists
          /\ (uploads[k].phase = "post") => ~ChangedInPlace(k)
          /\ (uploads[k].phase = "post" /\ Ended(k)) =>
                \/ /\ lastResult' = Failure("syncUp")
                   /\ gistId' = gistId
                   /\ gists' = gists
                \/ /\ lastResult' = Uploaded("post", Len(gists'), uploads[k].data)
                   /\ Len(gists') = Len(gists) + 1
                   /\ gistId' = Len(gists')
      ]_vars

\* A gist has gone missing, its id has been cleared on the 404 and the POST
\* of the re-creation is in flight.
C17_Witness ==
    /\ \E g \in 1..Len(gists) : ~gists[g].alive
    /\ gistId = NoGist
    /\ \E k \in 1..Len(uploads) : uploads[k].phase = "post"

\* C18 (as claimed): no two uploads are in flight together.
C18_OneUploadInFlight == Len(uploads) <= 1

-----------------------------------------------------------------------------
(* Claims about the auto-sync scheduler, checked under TimerSpec.          *)

\* C20: at most one interval timer runs; the one that runs is the timer
\* autoSyncTimer holds, and its period is the interval stored last (10
\* minutes when none was stored).
C20_OneTimerLatestInterval ==
    /\ Cardinality(timers) <= 1
    /\ \A t \in timers :
          /\ t.id = autoSyncTimer
          /\ t.period = storedInterval(syncInterval) * 60 * 1000

\* A timer runs with an interval set after another: of 30 minutes, which
\* only a timer restarted by setSyncInterval or started after it can have.
C20_Witness ==
    /\ syncInterval = <<30>>
    /\ \E t \in timers : t.period = 30 * 60 * 1000

\* The scheduler is Running: the browser has a timer of it to call.
Running == timers # {}

\* C21: startAutoSync (called directly, or by setAutoSyncEnabled(true))
\* without credentials leaves no timer active and the field null; and the
\* scheduler goes from Idle to Running only in a step taken with
\* credentials stored.
C21_StartNeedsCredentials ==
    [][/\ (~connected /\ (StartAutoSync \/ (SetAutoSyncEnabled /\ autoSyncEnabled' = <<TRUE>>)))
            => (~Running' /\ autoSyncTimer' = NoTimer)
       /\ (~Running /\ Running') => connected]_vars

\* startAutoSync was called with auto-sync enabled and no credentials.
C21_Witness ==
    /\ ~connected
    /\ autoSyncEnabled = <<TRUE>>
    /\ ~Running
    /\ autoSyncTimer = NoTimer

\* C22: stopAutoSync leaves no timer and the field null; called with the
\* field null it changes nothing; and the callback is called only while
\* the field holds a timer, so none is called from a stop to the next start.
C22_StopCancels ==
    [][/\ StopAutoSync => (~Running' /\ autoSyncTimer' = NoTimer)
       /\ (StopAutoSync /\ autoSyncTimer = NoTimer) => UNCHANGED vars
       /\ AutoSyncFire => autoSyncTimer # NoTimer]_vars

\* The scheduler has fired (an upload of its is in flight) and is Idle with
\* auto-sync enabled and credentials stored.
C22_Witness ==
    /\ connected
    /\ autoSyncEnabled = <<TRUE>>
    /\ Len(uploads) > 0
    /\ ~Running
    /\ autoSyncTimer = NoTimer

\* C23 (as claimed): setSyncInterval(m) called while the scheduler is
\* Running leaves exactly one timer, of period m minutes, none of which has
\* elapsed.
C23_IntervalChangeRestarts ==
    [][\A m \in SyncIntervals :
          (Running /\ SetSyncInterval /\ syncInterval' = <<m>>)
              => timers' = {newTimer(autoSyncTimer', m * 60 * 1000)}]_vars

\* C24: a firing leaves the timer set with its period, its next call one
\* period away, whatever uploads are in flight; a step of an upload
\* (a response, its success or failure) leaves the timers and the field as
\* they are; and no timer is ever past its period without having fired.
C24_FiringsIndependent ==
    [][/\ AutoSyncFire =>
            /\ autoSyncTimer' = autoSyncTimer
            /\ {[id |-> t.id, period |-> t.period] : t \in timers'}
                  = {[id |-> t.id, period |-> t.period] : t \in timers}
            /\ \E t \in timers' : t.elapsed = 0
       /\ (uploads' # uploads /\ ~AutoSyncFire) => UNCHANGED <<timers, autoSyncTimer>>
       /\ \A t \in timers' : t.elapsed <= t.period]_vars

\* An upload of the scheduler has just failed while another is in flight,
\* and the scheduler is Running.
C24_Witness ==
    /\ Running
    /\ Len(uploads) > 0
    /\ lastResult = Failure("syncUp")

\* C25 (as claimed): no syncUp called by the timer puts an alert before
\* the user.
C25_NoPromptFromTimer == "timer" \notin alerts

\* C38 (as claimed): whenever the scheduler is Running, credentials are
\* stored.
C38_TimerImpliesCredentials == Running => connected

-----------------------------------------------------------------------------
(* Claims about custom tags and tag colors, checked under TagSpec.         *)

\* C27 (as claimed): no two custom tags of the Local Store have the same
\* name.
C27_TagNamesUnique ==
    \A i, j \in 1..Len(storeTags) : storeTags[i].name = storeTags[j].name => i = j

\* The tag-color map the remote object carries: Undefined, or <<map>>.  A
\* sharded gist carries the map of its last shard file that has one.
carriedColors(data) ==
    IF data # <<>> /\ "tagColors" \in DOMAIN data[1] THEN <<data[1].tagColors>> ELSE Undefined
remoteColors(target) ==
    IF backend = "webdav" THEN carriedColors(davFile)
    ELSE IF backend = "gist-sharded" /\ DOMAIN gists[target].shards # {}
    THEN LET files == sortedShardData(gists[target].shards, DOMAIN gists[target].shards)
             carrying == {k \in 1..Len(files) : "tagColors" \in DOMAIN files[k]}
         IN  IF carrying = {} THEN Undefined
             ELSE <<files[CHOOSE k \in carrying : \A l \in carrying : l <= k].tagColors>>
    ELSE carriedColors(gists[target].legacy)

\* C28 (as claimed): a syncDown that ends in success leaves the local
\* tag-color map equal to the remote's map when the remote carries one, and
\* as it was when the remote carries none.
C28_ColorsReplacedByRemote ==
    [][(download # <<>> /\ download' = <<>> /\ lastResult' # <<>> /\ lastResult'[1].success) =>
          LET remote == remoteColors(download[1].target)
          IN  storeColors' = IF remote # Undefined THEN remote[1] ELSE storeColors]_vars

-----------------------------------------------------------------------------
(* Claims about mergeShards, checked under CombineSpec.                    *)

\* The shard files, by place, that carry `key`.
Carrying(key) == {k \in 1..Len(shardDataIn) : key \in DOMAIN shardDataIn[k]}
\* The value of `key` in the last file that carries it.
LastOf(key, default) ==
    IF Carrying(key) = {} THEN default
    ELSE shardDataIn[CHOOSE k \in Carrying(key) : \A l \in Carrying(key) : l <= k][key]

\* C29: the customTags and the tagColors mergeShards returns are those of
\* the last shard file that carries them, whatever files without them come
\* after; and when a file carries a syncTime the syncTime returned is one of
\* those carried, not null.
C29_AbsenceErasesNothing ==
    shardDataOut # <<>> =>
        /\ shardDataOut[1].customTags = LastOf("customTags", <<>>)
        /\ shardDataOut[1].tagColors = LastOf("tagColors", <<>>)
        /\ Carrying("syncTime") # {} =>
              /\ shardDataOut[1].syncTime # Undefined
              /\ \E k \in Carrying("syncTime") :
                    shardDataOut[1].syncTime = <<shardDataIn[k].syncTime>>

\* mergeShards was given a first file with customTags, tagColors and
\* syncTime and a last file with none of them.
C29_Witness ==
    /\ shardDataOut # <<>>
    /\ Len(shardDataIn) > 1
    /\ {"customTags", "tagColors", "syncTime"} \subseteq DOMAIN shardDataIn[1]
    /\ {"customTags", "tagColors", "syncTime"} \cap DOMAIN shardDataIn[Len(shardDataIn)] = {}
    /\ shardDataOut[1].customTags = shardDataIn[1].customTags

\* C30 (as claimed): of the copies of a note in the shard files, the one
\* mergeShards keeps is no older than any other.
C30_NewestCopyKept ==
    shardDataOut # <<>> =>
        \A k \in 1..Len(shardDataIn) :
            \A i \in 1..Len(shardDataIn[k].notes), j \in 1..Len(shardDataOut[1].notes) :
                shardDataOut[1].notes[j].id = shardDataIn[k].notes[i].id
                    => shardDataOut[1].notes[j].updatedAt >= shardDataIn[k].notes[i].updatedAt

\* C40 (as claimed): the syncTime mergeShards returns is the syncTime of
\* the last shard file, in the order given, that carries one.
C40_SyncTimeOfLastCarrier ==
    (shardDataOut # <<>> /\ Carrying("syncTime") # {}) =>
        shardDataOut[1].syncTime = <<LastOf("syncTime", 0)>>

\* C40 (amended): the syncTime mergeShards returns is the greatest syncTime
\* a shard file carries, and null when no shard file carries one.
C40_GreatestSyncTime ==
    shardDataOut # <<>> =>
        IF Carrying("syncTime") = {} THEN shardDataOut[1].syncTime = Undefined
        ELSE \E k \in Carrying("syncTime") :
                /\ shardDataOut[1].syncTime = <<shardDataIn[k].syncTime>>
                /\ \A l \in Carrying("syncTime") :
                      shardDataIn[l].syncTime <= shardDataIn[k].syncTime

\* mergeShards was given a first file with a later syncTime than the last
\* file's, and has returned the first file's.
C40_Witness ==
    /\ shardDataOut # <<>>
    /\ Len(shardDataIn) > 1
    /\ {1, Len(shardDataIn)} \subseteq Carrying("syncTime")
    /\ shardDataIn[1].syncTime > shardDataIn[Len(shardDataIn)].syncTime
    /\ shardDataOut[1].syncTime = <<shardDataIn[1].syncTime>>

-----------------------------------------------------------------------------
(* Claims about getGist and the sharded download, checked under            *)
(* GetGistSpec (one remote gist, gists[1], that no step changes).          *)

\* The indexes of the gist's shard files, and of those that parse.
ShardFilesPresent == DOMAIN gists[1].shards
ShardFilesParsing == {i \in ShardFilesPresent : gists[1].shards[i] # Unparseable}
\* getGist got the gist from GitHub.
GotGist == gistData # <<>> /\ gistData[1].response = "ok"
\* A syncDown has just ended in success.
Restored == lastResult # <<>> /\ lastResult[1].op = "syncDown" /\ lastResult[1].success

\* C31 (as claimed): whichever of the shard files of a gist fail to parse,
\* getGist does not throw and returns the combination of the shard files
\* that parse, in index order.
C31_PartialRecovery ==
    (GotGist /\ ShardFilesPresent # {}) =>
        gistData[1].returned =
            <<mergeShards([k \in 1..Cardinality(ShardFilesParsing) |->
                 gists[1].shards[CHOOSE i \in ShardFilesParsing :
                     Cardinality({j \in ShardFilesParsing : j < i}) = k - 1]])>>

\* The shard files that parse are all the shards of one upload: they carry
\* one total, and their indexes are 0..total-1.
ShardsComplete ==
    \E total \in 1..(MaxShardFiles + 1) :
        /\ ShardFilesParsing = 0..(total - 1)
        /\ \A i \in ShardFilesParsing : gists[1].shards[i].shardInfo.total = total

\* C32 (as claimed): a download from a gist that holds shard files ends in
\* success only when the shard files it read are all the shards there are.
C32_MissingShardsDetected ==
    (Restored /\ ShardFilesParsing # {}) => ShardsComplete

\* C35: from a gist with no shard file, getGist returns the content of the
\* whole file insight-notes.json and a syncDown that succeeds has taken
\* that file's notes for the snapshot; when the gist has no such file either, getGist throws
\* and the syncDown ends in failure with the Local Store, the last-sync
\* time and the gist id as they were.
C35_LegacyFallback ==
    [][ShardFilesPresent = {} =>
          /\ (GotGist' /\ gists[1].legacy = <<>>) => gistData'[1].returned = <<>>
          /\ (GotGist' /\ gists[1].legacy # <<>> /\ gists[1].legacy[1] # Unparseable) =>
                gistData'[1].returned = gists[1].legacy
          /\ (Restored' /\ gists[1].legacy # <<>>) =>
                lastResult'[1].cloud = Ids(gists[1].legacy[1].notes)
          /\ (download # <<>> /\ download' = <<>> /\ gists[1].legacy = <<>>) =>
                /\ lastResult' = Failure("syncDown")
                /\ UNCHANGED <<storeVars, tagVars, configVars>>]_vars

\* getGist has returned the whole file of a gist with no shard file, and a
\* syncDown from it has just put its note next to the local one.
C35_Witness ==
    /\ ShardFilesPresent = {}
    /\ GotGist
    /\ gistData[1].returned = gists[1].legacy
    /\ Restored
    /\ Cardinality(lastResult[1].after) = 2

-----------------------------------------------------------------------------
(* The size limit of the single-file Gist syncUp, checked under Spec.      *)

\* The serialized size of the snapshot a syncUp called now would build.
SnapshotSizeNow ==
    BaseSkeleton + TotalUnits(storeNotes) * SizeUnit

-----------------------------------------------------------------------------
(* The Local Store's writes during a download, checked under Spec.         *)

\* C34 (as claimed): a syncDown ends in success, with the last-sync time
\* set to now, only when the notes of the snapshot are in the Local Store:
\* not when the store rejected the write of the notes.
C34_WriteFailureSurfaced ==
    (Restored /\ lastSync = <<clock>>) => lastResult[1].cloud \subseteq Ids(storeNotes)

\* C36 (as claimed): the notes the Local Store holds when the response to
\* a download's fetch arrives, those the UI added while the fetch was in
\* flight among them, are in the Local Store when the download has ended.
C36_ConcurrentAddKept ==
    [][(download # <<>> /\ download' = <<>>) => Ids(storeNotes) \subseteq Ids(storeNotes')]_vars

\* The ids of the notes in the shard files of a gist.
GistNoteIds(gist) == UNION {Ids(gist.shards[i].notes) : i \in DOMAIN gist.shards}

\* C37 (as claimed): when a sharded syncUp ends in success by patching its
\* gist, every note id the gist held before is in the gist after, and so
\* is every note id of the Local Store the syncUp read.
C37_UploadDropsNothing ==
    [][PatchedSharded' =>
          LET target == lastResult'[1].target
          IN  /\ GistNoteIds(gists[target]) \subseteq GistNoteIds(gists'[target])
              /\ Ids(lastResult'[1].data.notes) \subseteq GistNoteIds(gists'[target])]_vars

\* C39 (as claimed): a step in which a syncDown returns success false
\* leaves the local notes, custom tags, tag colors and last-sync time as
\* they were, and a step in which a syncUp returns success false leaves
\* the last-sync time as it was.
C39_FailureChangesNothing ==
    [][(lastResult' # <<>> /\ ~lastResult'[1].success) =>
          /\ lastResult'[1].op = "syncDown" =>
                UNCHANGED <<storeNotes, storeTags, storeColors, lastSync>>
          /\ lastResult'[1].op = "syncUp" => UNCHANGED lastSync]_vars

-----------------------------------------------------------------------------
(* The result contract of the sync operations, checked under Spec.         *)

\* The kinds of text a result's message is.
Messages ==
    {"success", "error.message", "network: error.message",
     "not found", "unauthorized", "no space", "status", "too large"}

\* {success: boolean, message: string, ...}
IsResultRecord(r) ==
    /\ {"success", "message"} \subseteq DOMAIN r
    /\ r.success \in BOOLEAN
    /\ r.message \in Messages

\* A step with which a testConnection, a syncDown or a syncUp ends.
OperationEnds ==
    \/ testing /\ ~testing'
    \/ download # <<>> /\ download' = <<>>
    \/ Len(uploads') < Len(uploads)

\* C26: whatever a sync operation hands its caller is a record with a
\* boolean success and a message, and every step that ends a
\* testConnection, a syncDown or a syncUp hands one over, whatever the
\* response was.
C26_ResultAlwaysReturned ==
    [][/\ lastResult' # <<>> => IsResultRecord(lastResult'[1])
       /\ OperationEnds => lastResult' # <<>>]_vars

\* A syncDown has ended in its catch block with notes in the store (a
\* rejected fetch, an unparseable body, a throwing setItem).
C26_Witness ==
    /\ lastResult # <<>>
    /\ lastResult[1].op = "syncDown"
    /\ lastResult[1].message = "error.message"
    /\ storeNotes # <<>>
    /\ backend = "webdav"

====
